---- MODULE Spec2Model ----
(***************************************************************************)
(* EvaSoil dashboard: the sensor_readings table, the route handlers of     *)
(* src/app/api/sensor-data/route.ts (POST, DELETE), the realtime channel,  *)
(* the Dashboard component of src/app/page.tsx (range query, live INSERT   *)
(* handler, calculateStats, clearHistory, alerts) and the SettingsModal    *)
(* component of src/components/SettingsModal.tsx.                          *)
(*                                                                         *)
(* Time is counted in hours.  Metric values are integers; the averages and *)
(* trends that calculateStats derives from them are exact fractions        *)
(* [n, d] (d = 0 stands for NaN), so 0/0 and the `|| 0` fallbacks of the   *)
(* source are modelled as JavaScript evaluates them.                       *)
(***************************************************************************)
EXTENDS Integers, Sequences, FiniteSets, TLC

VARIABLES
    now,        \* wall clock, in hours
    store,      \* the sensor_readings table: a set of rows
    nextId,     \* the table's id sequence
    pushQ,      \* realtime channel: INSERT events not yet delivered (FIFO)
    data,       \* useState data      (page.tsx:35)
    latest,     \* useState latest    (page.tsx:36)
    loading,    \* useState loading   (page.tsx:37)
    timeRange,  \* useState timeRange (page.tsx:38)
    stats,      \* useState stats     (page.tsx:40)
    screen,     \* what the last committed render shows: "spinner" | "dashboard"
    timer,      \* the setTimeout(0) of the fetch effect is pending
    queries,    \* range queries in flight, in the order they were issued
    fetches,    \* how often fetchData has been called
    seededFrom, \* history: which call of fetchData put its result into
                \* data last (0 before the first)
    mounted,    \* the Dashboard is mounted
    subscribed, \* active subscriptions of the realtime channel
    unsubscribes, \* how often subscription.unsubscribe() has been called
    showSettings, \* useState showSettings (page.tsx:39)
    showConfirm,  \* useState showConfirm  (SettingsModal.tsx:31)
    thresholds,   \* the four threshold states (SettingsModal.tsx:32-35)
    localStorage, \* the item "evasoil_settings", Null when absent
    clearReq,   \* the DELETE request of clearHistory: "none", "sent",
                \* "failed" (fetch or json() threw) or the response
    response    \* the last response of the route handlers, Null before

\* The Dashboard's session: its mount and its channel subscription.
sessionVars == <<mounted, subscribed, unsubscribes>>

\* The settings modal and what it saves.
modalVars == <<showSettings, showConfirm, thresholds, localStorage>>

vars == <<now, store, nextId, pushQ, data, latest, loading, timeRange, stats,
          screen, timer, queries, fetches, seededFrom, sessionVars, modalVars,
          clearReq, response>>

-----------------------------------------------------------------------------
(* Bounds of the model *)

\* Last value of the clock.
MaxNow == 2
\* Rows inserted in one run.
MaxRows == 3
\* Range queries in flight at the same time.
MaxInflight == 2
\* Calls of fetchData in one run.
MaxFetches == 3
\* Longest series given to calculateStats in StatsSpec.
MaxSeries == 21
\* The buffer cap of the live handler, slice(-1000) in page.tsx:162, scaled
\* down so that a run can fill the buffer.
Cap == 2

(* Program constants *)

\* slice(-10): the trend's tail window (page.tsx:71).
TrendWindow == 10
\* slice(-20, -10): where the preceding window starts (page.tsx:72).
TrendSpan == 20
\* latest.moisture < 30: the level of the low moisture alert (page.tsx:562).
MoistureAlertLevel == 30
\* latest.light_lux < 100: the level of the low light alert (page.tsx:589).
LightAlertLevel == 100

-----------------------------------------------------------------------------
(* JavaScript numbers and arrays *)

Null == [id |-> 0]

Abs(x) == IF x < 0 THEN -x ELSE x

Min2(a, b) == IF a <= b THEN a ELSE b

Max2(a, b) == IF a >= b THEN a ELSE b

RECURSIVE GCD(_, _)
GCD(a, b) == IF b = 0 THEN a ELSE GCD(b, a % b)

NaN == [n |-> 0, d |-> 0]

Zero == [n |-> 0, d |-> 1]

\* The number n/d in lowest terms (d > 0).
Frac(n, d) == LET g == GCD(Abs(n), d) IN [n |-> n \div g, d |-> d \div g]

\* a / b for a sum a and a length b >= 0.  The only division by zero in
\* calculateStats is of the sum of an empty slice, 0 / 0, which is NaN.
Div(a, b) == IF b = 0 THEN NaN ELSE Frac(a, b)

\* x || 0: NaN and 0 are falsy.
OrZero(x) == IF x.d = 0 \/ x.n = 0 THEN Zero ELSE x

\* x - y for two finite numbers.
Sub(x, y) == Frac(x.n * y.d - y.n * x.d, x.d * y.d)

\* Array.prototype.slice's index clamping.
SliceIndex(i, len) == IF i < 0 THEN Max2(len + i, 0) ELSE Min2(i, len)

\* s.slice(start, end)
Slice(s, start, end) ==
    LET a == SliceIndex(start, Len(s))
        b == SliceIndex(end, Len(s))
    IN  IF a >= b THEN <<>> ELSE SubSeq(s, a + 1, b)

\* s.slice(start)
SliceFrom(s, start) == Slice(s, start, Len(s))

\* values.reduce((a, b) => a + b, 0)
RECURSIVE Sum(_)
Sum(s) == IF s = <<>> THEN 0 ELSE Head(s) + Sum(Tail(s))

\* Math.min(...values), for a non-empty array
RECURSIVE MathMin(_)
MathMin(s) == IF Len(s) = 1 THEN s[1] ELSE Min2(Head(s), MathMin(Tail(s)))

\* Math.max(...values), for a non-empty array
RECURSIVE MathMax(_)
MathMax(s) == IF Len(s) = 1 THEN s[1] ELSE Max2(Head(s), MathMax(Tail(s)))

\* readings.map((r) => r.<field>)
MapMoisture(readings) == [i \in DOMAIN readings |-> readings[i].moisture]

MapTemperature(readings) == [i \in DOMAIN readings |-> readings[i].temperature]

MapLight(readings) == [i \in DOMAIN readings |-> readings[i].light_lux]

-----------------------------------------------------------------------------
(* calculateStats (page.tsx:57-106) *)

\* The initial value of the stats state.
InitialStats ==
    [moistureAvg |-> Zero, moistureTrend |-> Zero,
     tempAvg |-> Zero, tempTrend |-> Zero,
     lightAvg |-> Zero, lightTrend |-> Zero,
     totalReadings |-> 0,
     moistureMin |-> 0, moistureMax |-> 0,
     tempMin |-> 0, tempMax |-> 0,
     lightMin |-> 0, lightMax |-> 0]

\* A slip in the average: the mean of the trend's tail window instead of
\* the whole series.
AverageOfRecent(values) ==
    Div(Sum(SliceFrom(values, -TrendWindow)),
        Len(SliceFrom(values, -TrendWindow)))

\* values.reduce(...) / values.length
Average(values) == Div(Sum(values), Len(values))

\* A slip in the preceding window: slice(-20) without its end.
OldWindowNoEnd(values) == SliceFrom(values, -TrendSpan)

\* values.slice(-20, -10)
OldWindow(values) == Slice(values, -TrendSpan, -TrendWindow)

\* (mean(recent) || 0) - (mean(old) || 0)
Trend(values) ==
    LET recent == SliceFrom(values, -TrendWindow)
        old == OldWindow(values)
    IN  Sub(OrZero(Div(Sum(recent), Len(recent))),
            OrZero(Div(Sum(old), Len(old))))

\* The stats state after calculateStats(readings), given the state before:
\* with fewer than 2 readings the function returns before setStats.
calculateStats(prev, readings) ==
    IF Len(readings) < 2 THEN prev
    ELSE LET moistureValues == MapMoisture(readings)
             tempValues == MapTemperature(readings)
             lightValues == MapLight(readings)
         IN  [moistureAvg |-> Average(moistureValues),
              moistureTrend |-> Trend(moistureValues),
              tempAvg |-> Average(tempValues),
              tempTrend |-> Trend(tempValues),
              lightAvg |-> Average(lightValues),
              lightTrend |-> Trend(lightValues),
              totalReadings |-> Len(readings),
              moistureMin |-> MathMin(moistureValues),
              moistureMax |-> MathMax(moistureValues),
              tempMin |-> MathMin(tempValues),
              tempMax |-> MathMax(tempValues),
              lightMin |-> MathMin(lightValues),
              lightMax |-> MathMax(lightValues)]

-----------------------------------------------------------------------------
(* The table and the range query *)

\* type TimeRange (page.tsx:32)
TimeRange == {"1h", "6h", "24h", "7d", "30d"}

\* The range buttons pressed in Spec.  The clock stops at MaxNow, where the
\* windows from 6h on all hold every row: 6h stands for the longer ones.
PressedRanges == {"1h", "6h"}

\* subHours / subDays of fetchData's switch, in hours.
Duration(range) ==
    CASE range = "1h" -> 1
      [] range = "6h" -> 6
      [] range = "24h" -> 24
      [] range = "7d" -> 7 * 24
      [] range = "30d" -> 30 * 24

\* .order("created_at", { ascending: true })
RECURSIVE OrderByCreatedAt(_)
OrderByCreatedAt(rows) ==
    IF rows = {} THEN <<>>
    ELSE LET first == CHOOSE r \in rows :
                          \A q \in rows : r.created_at <= q.created_at
         IN  <<first>> \o OrderByCreatedAt(rows \ {first})

\* .select("*").gte("created_at", fromDate).order("created_at", ascending)
SelectSince(rows, fromDate) ==
    OrderByCreatedAt({r \in rows : r.created_at >= fromDate})

\* A submitted field: a number (or numeric string), or anything parseFloat
\* turns into NaN (a missing field, a non-numeric string).
Number(v) == [kind |-> "number", v |-> v]

Missing == [kind |-> "undefined", v |-> 0]

\* A submitted string, as the sequence of its characters.  The strings of
\* the model hold whole numbers: no decimal point, no exponent.
Str(chars) == [kind |-> "string", chars |-> chars]

Digits == <<"0", "1", "2", "3", "4", "5", "6", "7", "8", "9">>

IsDigit(c) == \E k \in DOMAIN Digits : Digits[k] = c

DigitValue(c) == (CHOOSE k \in DOMAIN Digits : Digits[k] = c) - 1

\* The string without its leading white space.
RECURSIVE TrimStart(_)
TrimStart(chars) ==
    IF chars # <<>> /\ Head(chars) = " " THEN TrimStart(Tail(chars))
    ELSE chars

\* The longest prefix of digits.
RECURSIVE LeadingDigits(_)
LeadingDigits(chars) ==
    IF chars # <<>> /\ IsDigit(Head(chars))
    THEN <<Head(chars)>> \o LeadingDigits(Tail(chars))
    ELSE <<>>

\* The value of a sequence of digits.
RECURSIVE Decimal(_)
Decimal(digits) ==
    IF digits = <<>> THEN 0
    ELSE 10 * Decimal(SubSeq(digits, 1, Len(digits) - 1))
             + DigitValue(digits[Len(digits)])

\* parseFloat of a string: white space is skipped, then the longest prefix
\* that is a decimal literal is parsed and the rest of the string ignored;
\* NaN when there is no such prefix.
ParsePrefix(chars) ==
    LET t == TrimStart(chars)
        signed == t # <<>> /\ Head(t) \in {"+", "-"}
        digits == LeadingDigits(IF signed THEN Tail(t) ELSE t)
    IN  IF digits = <<>> THEN NaN
        ELSE IF signed /\ Head(t) = "-" THEN Frac(-Decimal(digits), 1)
        ELSE Frac(Decimal(digits), 1)

\* parseFloat(field): a number is converted to a string and parsed back;
\* undefined, null and booleans give NaN.
parseFloat(field) ==
    IF field.kind = "number" THEN Frac(field.v, 1)
    ELSE IF field.kind = "string" THEN ParsePrefix(field.chars)
    ELSE NaN

\* The submissions the sensor sends in Spec.
Bodies ==
    { [device_id |-> "ESP32_PlantGuard_01", soil |-> Number(25),
       temperature |-> Number(20), light_lux |-> Number(50)],
      [device_id |-> "", soil |-> Number(35),
       temperature |-> Number(30), light_lux |-> Missing] }

\* insertData of POST (route.ts:10-16), with the id and created_at the table
\* gives the row.
InsertedRow(body, id, createdAt) ==
    [id |-> id,
     device_id |-> IF body.device_id = "" THEN "ESP32_PlantGuard_01"
                   ELSE body.device_id,
     moisture |-> OrZero(parseFloat(body.soil)).n,
     temperature |-> OrZero(parseFloat(body.temperature)).n,
     light_lux |-> OrZero(parseFloat(body.light_lux)).n,
     created_at |-> createdAt]

-----------------------------------------------------------------------------
(* State after the Dashboard has mounted: both effects have run, so the    *)
(* channel is subscribed and the fetch timer is pending.                   *)

\* useState(30), useState(15), useState(28), useState(100)
\* (SettingsModal.tsx:32-35)
DefaultThresholds ==
    [moistureThreshold |-> 30, tempThresholdLow |-> 15,
     tempThresholdHigh |-> 28, lightThreshold |-> 100]

\* clearHistory has no request under way.
NoRequest == [state |-> "none"]

\* The session of a Dashboard that has just mounted: the channel is
\* subscribed, the modal is closed and holds its initial state.
SessionStart ==
    /\ mounted = TRUE
    /\ subscribed = 1
    /\ unsubscribes = 0
    /\ showSettings = FALSE
    /\ showConfirm = FALSE
    /\ thresholds = DefaultThresholds
    /\ clearReq = NoRequest

Init ==
    /\ now = 0
    /\ store = {}
    /\ nextId = 1
    /\ pushQ = <<>>
    /\ data = <<>>
    /\ latest = Null
    /\ loading = TRUE
    /\ timeRange = "6h"
    /\ stats = InitialStats
    /\ screen = "spinner"
    /\ timer = TRUE
    /\ queries = <<>>
    /\ fetches = 0
    /\ seededFrom = 0
    /\ SessionStart
    /\ localStorage = Null
    /\ response = Null

RemoveAt(s, i) == SubSeq(s, 1, i - 1) \o SubSeq(s, i + 1, Len(s))

\* Time passes.
Tick(d) ==
    /\ now + d <= MaxNow
    /\ now' = now + d
    /\ UNCHANGED <<store, nextId, pushQ, data, latest, loading, timeRange,
                   stats, screen, timer, queries, fetches, seededFrom>>
    /\ UNCHANGED <<sessionVars, modalVars, clearReq, response>>

\* POST /api/sensor-data (route.ts:4-41).  The insert stamps created_at and
\* the channel carries the new row to a subscribed Dashboard; a failed
\* insert changes nothing and is answered with status 500.  No two rows
\* share a created_at.
POST(body, ok) ==
    /\ nextId <= MaxRows
    /\ \A r \in store : r.created_at < now
    /\ IF ok
       THEN LET row == InsertedRow(body, nextId, now)
            IN  /\ store' = store \cup {row}
                /\ nextId' = nextId + 1
                /\ pushQ' = IF subscribed > 0 THEN Append(pushQ, row)
                            ELSE pushQ
                /\ response' = [status |-> 200, success |-> TRUE,
                                data |-> row]
       ELSE /\ UNCHANGED <<store, nextId, pushQ>>
            /\ response' = [status |-> 500, success |-> FALSE]
    /\ UNCHANGED <<now, data, latest, loading, timeRange, stats, screen,
                   timer, queries, fetches, seededFrom>>
    /\ UNCHANGED <<sessionVars, modalVars, clearReq>>

\* A slip in DELETE: the check of the device id is missing, and
\* .eq("device_id", null) matches no row and reports no error.
DeleteResultNoIdCheck(rows, action, deviceId, ok) ==
    IF action = "clear_all"
    THEN IF ok
         THEN [store |-> {r \in rows : ~(r.id # 0)},
               response |-> [status |-> 200, success |-> TRUE,
                             message |-> "All history cleared"]]
         ELSE [store |-> rows,
               response |-> [status |-> 500, success |-> FALSE]]
    ELSE IF action = "clear_device"
    THEN IF ok
         THEN [store |-> {r \in rows : ~(r.device_id = deviceId)},
               response |-> [status |-> 200, success |-> TRUE,
                             message |-> "History cleared for device"]]
         ELSE [store |-> rows,
               response |-> [status |-> 500, success |-> FALSE]]
    ELSE [store |-> rows,
          response |-> [status |-> 400, success |-> FALSE]]

\* The table and the response after DELETE /api/sensor-data (route.ts:63-114)
\* with the query parameters action and device_id ("" for one that is
\* absent or empty); ok: the table's delete reports no error.
DeleteResult(rows, action, deviceId, ok) ==
    IF action = "clear_all"
    THEN IF ok
         THEN [store |-> {r \in rows : ~(r.id # 0)},
               response |-> [status |-> 200, success |-> TRUE,
                             message |-> "All history cleared"]]
         ELSE [store |-> rows,
               response |-> [status |-> 500, success |-> FALSE]]
    ELSE IF action = "clear_device"
    THEN IF deviceId = ""
         THEN [store |-> rows,
               response |-> [status |-> 400, success |-> FALSE]]
         ELSE IF ok
         THEN [store |-> {r \in rows : ~(r.device_id = deviceId)},
               response |-> [status |-> 200, success |-> TRUE,
                             message |-> "History cleared for device"]]
         ELSE [store |-> rows,
               response |-> [status |-> 500, success |-> FALSE]]
    ELSE [store |-> rows,
          response |-> [status |-> 400, success |-> FALSE]]

\* DELETE /api/sensor-data, requested by any client of the route.  The
\* channel listens to INSERT only.
DELETE(action, deviceId, ok) ==
    /\ store' = DeleteResult(store, action, deviceId, ok).store
    /\ response' = DeleteResult(store, action, deviceId, ok).response
    /\ UNCHANGED <<now, nextId, pushQ, data, latest, loading, timeRange,
                   stats, screen, timer, queries, fetches, seededFrom>>
    /\ UNCHANGED <<sessionVars, modalVars, clearReq>>

\* React commits a render: `if (loading)` shows the spinner instead of the
\* dashboard, range buttons included (page.tsx:261-272).  A state update made
\* outside an event handler (setLoading in the timer callback or after the
\* await) is rendered in a later task, so until then the screen of the last
\* render is the one that takes the clicks.
\* The SettingsModal is an element of the dashboard screen only
\* (page.tsx:630-636): the spinner unmounts it, and the next dashboard
\* screen mounts a new one with the initial showConfirm and thresholds.
\* showSettings is state of the Dashboard and stays.
Render ==
    /\ mounted
    /\ screen # (IF loading THEN "spinner" ELSE "dashboard")
    /\ screen' = (IF loading THEN "spinner" ELSE "dashboard")
    /\ IF loading
       THEN /\ showConfirm' = FALSE
            /\ thresholds' = DefaultThresholds
       ELSE UNCHANGED <<showConfirm, thresholds>>
    /\ UNCHANGED <<now, store, nextId, pushQ, data, latest, loading,
                   timeRange, stats, timer, queries, fetches, seededFrom>>
    /\ UNCHANGED <<sessionVars, showSettings, localStorage, clearReq,
                   response>>

\* A range button is pressed (page.tsx:294-298).  The buttons exist only on
\* the dashboard screen.  fetchData depends on timeRange, so the fetch effect
\* is cleaned up (clearTimeout) and run again (setTimeout).
SetTimeRange(range) ==
    /\ screen = "dashboard"
    /\ range # timeRange
    /\ timeRange' = range
    /\ timer' = TRUE
    /\ UNCHANGED <<now, store, nextId, pushQ, data, latest, loading, stats,
                   screen, queries, fetches, seededFrom>>
    /\ UNCHANGED <<sessionVars, modalVars, clearReq, response>>

\* The effect's timer fires and calls fetchData, which runs up to its await
\* (page.tsx:110-137, 182-186).  seq numbers the calls; the code keeps no
\* such number.
TimerFire ==
    /\ timer
    /\ Len(queries) < MaxInflight
    /\ fetches < MaxFetches
    /\ fetches' = fetches + 1
    /\ timer' = FALSE
    /\ loading' = TRUE
    /\ queries' = Append(queries,
                         [seq |-> fetches + 1,
                          token |-> timeRange,
                          fromDate |-> now - Duration(timeRange),
                          status |-> "sent",
                          rows |-> <<>>])
    /\ UNCHANGED <<now, store, nextId, pushQ, data, latest, timeRange, stats,
                   screen, seededFrom>>
    /\ UNCHANGED <<sessionVars, modalVars, clearReq, response>>

\* The table answers a range query, or the request fails.  The answer holds
\* { data, error } only: the request's fromDate is no part of it.
QueryAnswer(i, ok) ==
    /\ i \in DOMAIN queries
    /\ queries[i].status = "sent"
    /\ queries' = [queries EXCEPT ![i] =
                     IF ok
                     THEN [seq |-> queries[i].seq,
                           token |-> queries[i].token,
                           fromDate |-> 0,
                           status |-> "ok",
                           rows |-> SelectSince(store, queries[i].fromDate)]
                     ELSE [seq |-> queries[i].seq,
                           token |-> queries[i].token,
                           fromDate |-> 0,
                           status |-> "error",
                           rows |-> <<>>]]
    /\ UNCHANGED <<now, store, nextId, pushQ, data, latest, loading,
                   timeRange, stats, screen, timer, fetches, seededFrom>>
    /\ UNCHANGED <<sessionVars, modalVars, clearReq, response>>

\* A slip in fetchData: setData(readings || []) outside the `if`, so that a
\* failed query blanks the buffer.
ResponseBlanksOnError(i) ==
    /\ i \in DOMAIN queries
    /\ queries[i].status # "sent"
    /\ IF mounted
       THEN /\ LET readings == queries[i].rows
               IN  IF queries[i].status = "ok"
                   THEN /\ data' = readings
                        /\ seededFrom' = queries[i].seq
                        /\ IF Len(readings) > 0
                           THEN /\ latest' = readings[Len(readings)]
                                /\ stats' = calculateStats(stats, readings)
                           ELSE UNCHANGED <<latest, stats>>
                   ELSE /\ data' = <<>>
                        /\ UNCHANGED <<latest, stats, seededFrom>>
            /\ loading' = FALSE
       ELSE UNCHANGED <<data, latest, stats, seededFrom, loading>>
    /\ queries' = RemoveAt(queries, i)
    /\ UNCHANGED <<now, store, nextId, pushQ, timeRange, screen, timer,
                   fetches>>
    /\ UNCHANGED <<sessionVars, modalVars, clearReq, response>>

\* fetchData resumes after its await (page.tsx:139-146).  The setters of a
\* Dashboard that has unmounted meanwhile change nothing.
Response(i) ==
    /\ i \in DOMAIN queries
    /\ queries[i].status # "sent"
    /\ IF mounted
       THEN /\ LET readings == queries[i].rows
               IN  IF queries[i].status = "ok"
                   THEN /\ data' = readings
                        /\ seededFrom' = queries[i].seq
                        /\ IF Len(readings) > 0
                           THEN /\ latest' = readings[Len(readings)]
                                /\ stats' = calculateStats(stats, readings)
                           ELSE UNCHANGED <<latest, stats>>
                   ELSE UNCHANGED <<data, latest, stats, seededFrom>>
            /\ loading' = FALSE
       ELSE UNCHANGED <<data, latest, stats, seededFrom, loading>>
    /\ queries' = RemoveAt(queries, i)
    /\ UNCHANGED <<now, store, nextId, pushQ, timeRange, screen, timer,
                   fetches>>
    /\ UNCHANGED <<sessionVars, modalVars, clearReq, response>>

\* [...prev, newReading].slice(-1000)
AppendReading(prev, newReading) == SliceFrom(Append(prev, newReading), -Cap)

\* The realtime INSERT handler (page.tsx:160-164).
LivePush ==
    /\ subscribed > 0
    /\ pushQ # <<>>
    /\ LET newReading == Head(pushQ)
       IN  /\ data' = AppendReading(data, newReading)
           /\ latest' = newReading
    /\ pushQ' = Tail(pushQ)
    /\ UNCHANGED <<now, store, nextId, loading, timeRange, stats, screen,
                   timer, queries, fetches, seededFrom>>
    /\ UNCHANGED <<sessionVars, modalVars, clearReq, response>>

\* A slip in the realtime effect: no cleanup function, the channel stays
\* subscribed after the Dashboard is gone.
UnmountNoCleanup ==
    /\ mounted
    /\ mounted' = FALSE
    /\ UNCHANGED <<subscribed, unsubscribes, pushQ>>
    /\ timer' = FALSE
    /\ data' = <<>>
    /\ latest' = Null
    /\ loading' = TRUE
    /\ timeRange' = "6h"
    /\ stats' = InitialStats
    /\ screen' = "none"
    /\ seededFrom' = 0
    /\ showSettings' = FALSE
    /\ showConfirm' = FALSE
    /\ thresholds' = DefaultThresholds
    /\ UNCHANGED <<now, store, nextId, queries, fetches, localStorage,
                   clearReq, response>>

\* The Dashboard unmounts (the page is left): the cleanup of the realtime
\* effect unsubscribes the channel (page.tsx:174-176), which delivers no
\* further event, and the cleanup of the fetch effect clears the timer
\* (page.tsx:187-190).  The state of the Dashboard and of its modal is
\* gone: the variables take their initial values.  Requests under way stay
\* under way.
Unmount ==
    /\ mounted
    /\ mounted' = FALSE
    /\ subscribed' = subscribed - 1
    /\ unsubscribes' = unsubscribes + 1
    /\ pushQ' = <<>>
    /\ timer' = FALSE
    /\ data' = <<>>
    /\ latest' = Null
    /\ loading' = TRUE
    /\ timeRange' = "6h"
    /\ stats' = InitialStats
    /\ screen' = "none"
    /\ seededFrom' = 0
    /\ showSettings' = FALSE
    /\ showConfirm' = FALSE
    /\ thresholds' = DefaultThresholds
    /\ UNCHANGED <<now, store, nextId, queries, fetches, localStorage,
                   clearReq, response>>

-----------------------------------------------------------------------------
(* The settings modal (SettingsModal.tsx) and clearHistory (page.tsx)      *)

\* The Settings button (page.tsx:315-321).
OpenSettings ==
    /\ screen = "dashboard"
    /\ ~showSettings
    /\ showSettings' = TRUE
    /\ UNCHANGED <<now, store, nextId, pushQ, data, latest, loading,
                   timeRange, stats, screen, timer, queries, fetches,
                   seededFrom>>
    /\ UNCHANGED <<sessionVars, showConfirm, thresholds, localStorage,
                   clearReq, response>>

\* onClose: the modal's X button or a click on its backdrop
\* (SettingsModal.tsx:64, 82-87; page.tsx:632).  The SettingsModal stays
\* mounted and keeps its state.
CloseSettings ==
    /\ screen = "dashboard"
    /\ showSettings
    /\ showSettings' = FALSE
    /\ UNCHANGED <<now, store, nextId, pushQ, data, latest, loading,
                   timeRange, stats, screen, timer, queries, fetches,
                   seededFrom>>
    /\ UNCHANGED <<sessionVars, showConfirm, thresholds, localStorage,
                   clearReq, response>>

\* The positions the sliders are moved to (SettingsModal.tsx:101-164).
MoistureChoices == {30, 50}

TempLowChoices == {10, 15}

TempHighChoices == {28, 35}

LightChoices == {100, 500}

\* A slider is moved: name is the threshold state it sets.
SetThreshold(name, v) ==
    /\ screen = "dashboard"
    /\ showSettings
    /\ thresholds[name] # v
    /\ thresholds' = [thresholds EXCEPT ![name] = v]
    /\ UNCHANGED <<now, store, nextId, pushQ, data, latest, loading,
                   timeRange, stats, screen, timer, queries, fetches,
                   seededFrom>>
    /\ UNCHANGED <<sessionVars, showSettings, showConfirm, localStorage,
                   clearReq, response>>

\* saveSettings (SettingsModal.tsx:43-54)
saveSettings ==
    /\ screen = "dashboard"
    /\ showSettings
    /\ localStorage' = thresholds
    /\ UNCHANGED <<now, store, nextId, pushQ, data, latest, loading,
                   timeRange, stats, screen, timer, queries, fetches,
                   seededFrom>>
    /\ UNCHANGED <<sessionVars, showSettings, showConfirm, thresholds,
                   clearReq, response>>

\* The buttons of the Danger Zone that set showConfirm: "Clear All History"
\* (shown while !showConfirm) and "Cancel" (SettingsModal.tsx:245-270).
SetShowConfirm(value) ==
    /\ screen = "dashboard"
    /\ showSettings
    /\ showConfirm # value
    /\ showConfirm' = value
    /\ UNCHANGED <<now, store, nextId, pushQ, data, latest, loading,
                   timeRange, stats, screen, timer, queries, fetches,
                   seededFrom>>
    /\ UNCHANGED <<sessionVars, showSettings, thresholds, localStorage,
                   clearReq, response>>

\* "Yes, Delete All": handleClearHistory (SettingsModal.tsx:37-41) calls
\* clearHistory, which runs up to its await and sends the DELETE request
\* (page.tsx:212-219), then resets showConfirm and closes the modal.  One
\* request of clearHistory is under way at a time.
handleClearHistory ==
    /\ screen = "dashboard"
    /\ showSettings
    /\ showConfirm
    /\ clearReq = NoRequest
    /\ clearReq' = [state |-> "sent"]
    /\ showConfirm' = FALSE
    /\ showSettings' = FALSE
    /\ UNCHANGED <<now, store, nextId, pushQ, data, latest, loading,
                   timeRange, stats, screen, timer, queries, fetches,
                   seededFrom>>
    /\ UNCHANGED <<sessionVars, thresholds, localStorage, response>>

\* The route handles clearHistory's request, action=clear_all.
ClearHistoryServed(ok) ==
    /\ clearReq = [state |-> "sent"]
    /\ store' = DeleteResult(store, "clear_all", "", ok).store
    /\ response' = DeleteResult(store, "clear_all", "", ok).response
    /\ clearReq' = [state |-> "answered",
                    result |-> DeleteResult(store, "clear_all", "", ok).response]
    /\ UNCHANGED <<now, nextId, pushQ, data, latest, loading, timeRange,
                   stats, screen, timer, queries, fetches, seededFrom>>
    /\ UNCHANGED <<sessionVars, modalVars>>

\* The request does not reach the route: fetch rejects.
ClearHistoryThrows ==
    /\ clearReq = [state |-> "sent"]
    /\ clearReq' = [state |-> "threw"]
    /\ UNCHANGED <<now, store, nextId, pushQ, data, latest, loading,
                   timeRange, stats, screen, timer, queries, fetches,
                   seededFrom>>
    /\ UNCHANGED <<sessionVars, modalVars, response>>

\* clearHistory resumes after its awaits (page.tsx:220-229): with
\* result.success it empties the buffer and the latest reading; otherwise,
\* and in the catch, it sets nothing.
ClearHistoryResumes ==
    /\ clearReq.state \in {"answered", "threw"}
    /\ clearReq' = NoRequest
    /\ IF mounted /\ clearReq.state = "answered" /\ clearReq.result.success
       THEN /\ data' = <<>>
            /\ latest' = Null
       ELSE UNCHANGED <<data, latest>>
    /\ UNCHANGED <<now, store, nextId, pushQ, loading, timeRange, stats,
                   screen, timer, queries, fetches, seededFrom>>
    /\ UNCHANGED <<sessionVars, modalVars, response>>

\* The alerts of the dashboard screen (page.tsx:326, 562-613): two, both
\* inside `latest && (...)`.  No temperature alert is rendered.
LowMoistureAlert == latest # Null /\ latest.moisture < MoistureAlertLevel

LowLightAlert == latest # Null /\ latest.light_lux < LightAlertLevel

TempOutOfRangeAlert == FALSE

TickSteps == {1}

Next ==
    \/ \E d \in TickSteps : Tick(d)
    \/ \E body \in Bodies, ok \in BOOLEAN : POST(body, ok)
    \/ Render
    \/ \E range \in PressedRanges : SetTimeRange(range)
    \/ TimerFire
    \/ \E i \in 1..MaxInflight, ok \in BOOLEAN : QueryAnswer(i, ok)
    \/ \E i \in 1..MaxInflight : Response(i)
    \/ LivePush
    \/ Unmount

Spec == Init /\ [][Next]_vars

-----------------------------------------------------------------------------
(* calculateStats on longer series.  StatsSpec starts where the Dashboard  *)
(* has switched to 30d and the table has answered the range query with a   *)
(* series of up to MaxSeries hourly readings; the response is then handled *)
(* by fetchData.  The series are ramps and steps: reading i of n, with the *)
(* step at k.                                                              *)

Profile(p, i, k) ==
    CASE p = 1 -> i
      [] p = 2 -> IF i <= k THEN 50 ELSE 30
      [] p = 3 -> IF i <= k THEN 0 ELSE 100 - i

SeriesRow(p, i, k) ==
    [id |-> i,
     device_id |-> "ESP32_PlantGuard_01",
     moisture |-> Profile(p, i, k),
     temperature |-> Profile((p % 3) + 1, i, k),
     light_lux |-> 10 * Profile(((p + 1) % 3) + 1, i, k),
     created_at |-> i]

StatsInit ==
    \E n \in 0..MaxSeries, p \in 1..3 :
      \E k \in 0..n :
        /\ now = n
        /\ store = {SeriesRow(p, i, k) : i \in 1..n}
        /\ nextId = n + 1
        /\ pushQ = <<>>
        /\ data = <<>>
        /\ latest = Null
        /\ loading = TRUE
        /\ timeRange = "30d"
        /\ stats = InitialStats
        /\ screen = "spinner"
        /\ timer = FALSE
        /\ queries = << [seq |-> 1,
                         token |-> "30d",
                         fromDate |-> 0,
                         status |-> "ok",
                         rows |-> SelectSince(store, now - Duration("30d"))] >>
        /\ fetches = 1
        /\ seededFrom = 0
        /\ SessionStart
        /\ localStorage = Null
        /\ response = Null

StatsNext ==
    \/ Response(1)
    \/ Render

StatsSpec == StatsInit /\ [][StatsNext]_vars

-----------------------------------------------------------------------------
(* One session of the Dashboard over a table that no longer changes: two   *)
(* readings have been submitted, before the mount or between the mount and *)
(* the fetch timer (their INSERT events are then still in the channel).    *)
(* The session changes windows, its queries succeed or fail, and it ends   *)
(* with the unmount.                                                       *)

SessionInit ==
    \E first \in Bodies, second \in Bodies :
        LET r1 == InsertedRow(first, 1, 0)
            r2 == InsertedRow(second, 2, 1)
        IN  /\ now = 2
            /\ store = {r1, r2}
            /\ nextId = 3
            /\ pushQ \in {<<>>, <<r2>>, <<r1, r2>>}
            /\ data = <<>>
            /\ latest = Null
            /\ loading = TRUE
            /\ timeRange = "6h"
            /\ stats = InitialStats
            /\ screen = "spinner"
            /\ timer = TRUE
            /\ queries = <<>>
            /\ fetches = 0
            /\ seededFrom = 0
            /\ SessionStart
            /\ localStorage = Null
            /\ response = Null

SessionNext ==
    \/ Render
    \/ \E range \in PressedRanges : SetTimeRange(range)
    \/ TimerFire
    \/ \E i \in 1..MaxInflight, ok \in BOOLEAN : QueryAnswer(i, ok)
    \/ \E i \in 1..MaxInflight : Response(i)
    \/ LivePush
    \/ Unmount

SessionSpec == SessionInit /\ [][SessionNext]_vars

-----------------------------------------------------------------------------
(* The route handlers on their own: no Dashboard is open, sensors of two   *)
(* devices submit readings and clients of the route delete them.           *)

\* The submissions of RouteSpec: numbers, numeric strings, strings that are
\* no number, missing fields.
Submissions ==
    Bodies \cup
    { [device_id |-> "ESP32_Balcony", soil |-> Str(<<"4", "0">>),
       temperature |-> Str(<<"a", "b", "c">>), light_lux |-> Number(0)],
      [device_id |-> "ESP32_Balcony", soil |-> Str(<<"2", "5", "%">>),
       temperature |-> Str(<<"-", "5">>),
       light_lux |-> Str(<<" ", "7">>)] }

\* searchParams.get("action"), "" for a request without the parameter
Actions == {"clear_all", "clear_device", "reset", ""}

\* searchParams.get("device_id"), "" for a request without the parameter
DeviceIds == {"", "ESP32_PlantGuard_01", "ESP32_Balcony"}

RouteInit ==
    /\ now = 0
    /\ store = {}
    /\ nextId = 1
    /\ pushQ = <<>>
    /\ data = <<>>
    /\ latest = Null
    /\ loading = TRUE
    /\ timeRange = "6h"
    /\ stats = InitialStats
    /\ screen = "none"
    /\ timer = FALSE
    /\ queries = <<>>
    /\ fetches = 0
    /\ seededFrom = 0
    /\ mounted = FALSE
    /\ subscribed = 0
    /\ unsubscribes = 0
    /\ showSettings = FALSE
    /\ showConfirm = FALSE
    /\ thresholds = DefaultThresholds
    /\ localStorage = Null
    /\ clearReq = NoRequest
    /\ response = Null

RouteNext ==
    \/ \E d \in TickSteps : Tick(d)
    \/ \E body \in Submissions, ok \in BOOLEAN : POST(body, ok)
    \/ \E action \in Actions, deviceId \in DeviceIds, ok \in BOOLEAN :
          DELETE(action, deviceId, ok)

RouteSpec == RouteInit /\ [][RouteNext]_vars

-----------------------------------------------------------------------------
(* The settings modal and clearHistory: the Dashboard has just mounted and *)
(* the table holds two readings that were submitted before.                *)

SettingsInit ==
    \E first \in Bodies, second \in Bodies :
        /\ now = 2
        /\ store = {InsertedRow(first, 1, 0), InsertedRow(second, 2, 1)}
        /\ nextId = 3
        /\ pushQ = <<>>
        /\ data = <<>>
        /\ latest = Null
        /\ loading = TRUE
        /\ timeRange = "6h"
        /\ stats = InitialStats
        /\ screen = "spinner"
        /\ timer = TRUE
        /\ queries = <<>>
        /\ fetches = 0
        /\ seededFrom = 0
        /\ SessionStart
        /\ localStorage = Null
        /\ response = Null

SettingsNext ==
    \/ TimerFire
    \/ \E i \in 1..MaxInflight, ok \in BOOLEAN : QueryAnswer(i, ok)
    \/ \E i \in 1..MaxInflight : Response(i)
    \/ Render
    \/ OpenSettings
    \/ CloseSettings
    \/ \E v \in MoistureChoices : SetThreshold("moistureThreshold", v)
    \/ \E v \in TempLowChoices : SetThreshold("tempThresholdLow", v)
    \/ \E v \in TempHighChoices : SetThreshold("tempThresholdHigh", v)
    \/ \E v \in LightChoices : SetThreshold("lightThreshold", v)
    \/ saveSettings
    \/ \E value \in BOOLEAN : SetShowConfirm(value)
    \/ handleClearHistory
    \/ \E ok \in BOOLEAN : ClearHistoryServed(ok)
    \/ ClearHistoryThrows
    \/ ClearHistoryResumes

SettingsSpec == SettingsInit /\ [][SettingsNext]_vars

-----------------------------------------------------------------------------
(* Claims *)

\* A step in which the live INSERT handler runs.
PushStep == mounted' /\ pushQ # <<>> /\ pushQ' = Tail(pushQ)

\* A step in which fetchData resumes with the answer of query i, in a
\* mounted Dashboard.
ResponseStep(i) ==
    /\ mounted
    /\ i \in DOMAIN queries
    /\ queries[i].status # "sent"
    /\ queries' = RemoveAt(queries, i)

\* C1: when the buffer holds the result of the newest query, which is the
\* one of the selected window token, and the response of an older query
\* arrives after it, the stale response is discarded: buffer, latest reading
\* and statistics stay those of the newest query.
C1_StaleResponseDiscarded ==
    [][\A i \in DOMAIN queries :
          (/\ ResponseStep(i)
           /\ queries[i].seq < fetches
           /\ seededFrom = fetches
           /\ ~timer)
              => UNCHANGED <<data, latest, stats>>]_vars

\* C2: the buffer is sorted ascending by createdAt in every state.
C2_BufferSorted ==
    \A i \in 1..(Len(data) - 1) : data[i].created_at <= data[i + 1].created_at

\* C3: the buffer never holds two entries with the same id.
C3_NoDuplicateIds ==
    \A i, j \in DOMAIN data : i # j => data[i].id # data[j].id

\* The elements of a sequence.
Range(s) == {s[i] : i \in DOMAIN s}

\* The k rows with the latest created_at.
RECURSIVE MostRecent(_, _)
MostRecent(rows, k) ==
    IF k = 0 \/ rows = {} THEN {}
    ELSE LET top == CHOOSE r \in rows :
                        \A q \in rows : q.created_at <= r.created_at
         IN  {top} \cup MostRecent(rows \ {top}, k - 1)

\* C4: no step leaves more than cap entries in the buffer; a query result
\* longer than cap is seeded as its last cap entries; a live merge into a
\* full buffer keeps the cap most recent readings by createdAt.
C4_CapKeepsMostRecent ==
    [][/\ Len(data') <= Cap
       /\ \A i \in DOMAIN queries :
             (ResponseStep(i) /\ queries[i].status = "ok"
                  /\ Len(queries[i].rows) > Cap)
                 => data' = SubSeq(queries[i].rows,
                                   Len(queries[i].rows) - Cap + 1,
                                   Len(queries[i].rows))
       /\ (PushStep /\ Len(data) = Cap)
             => Range(data') = MostRecent(Range(data) \cup {Head(pushQ)},
                                          Cap)]_vars

\* C5: after a live push has been handled, the published statistics are
\* those of the new buffer (for a buffer that statistics are defined for).
C5_PushRecomputesStats ==
    [][(PushStep /\ Len(data') >= 2)
          => stats' = calculateStats(stats, data')]_vars

\* C6: for a series of 2 to 10 readings every metric's trend is 0.
C6_ShortSeriesTrendZero ==
    (queries = <<>> /\ Len(data) >= 2 /\ Len(data) <= TrendWindow)
        => /\ stats.moistureTrend = Zero
           /\ stats.tempTrend = Zero
           /\ stats.lightTrend = Zero

\* The mean of values[from..to] as a fraction in lowest terms.
MeanOf(values, from, to) ==
    LET RECURSIVE Total(_)
        Total(i) == IF i > to THEN 0 ELSE values[i] + Total(i + 1)
    IN  Frac(Total(from), to - from + 1)

\* mean(last 10 values) - mean(the min(10, n - 10) values before them)
TailMinusPreceding(values) ==
    LET n == Len(values)
        m == Min2(10, n - 10)
    IN  Sub(MeanOf(values, n - 9, n), MeanOf(values, n - 9 - m, n - 10))

\* C7: for a series of n >= 11 readings each metric's trend is the mean of
\* the last 10 values minus the mean of the min(10, n - 10) values
\* immediately before them.
C7_TrendOfLongSeries ==
    (queries = <<>> /\ Len(data) >= 11)
        => /\ stats.moistureTrend = TailMinusPreceding(MapMoisture(data))
           /\ stats.tempTrend = TailMinusPreceding(MapTemperature(data))
           /\ stats.lightTrend = TailMinusPreceding(MapLight(data))

\* Scenario B has been computed: moisture 1..20 in order, trend 10.
C7_Witness ==
    /\ queries = <<>>
    /\ Len(data) = 20
    /\ \A i \in 1..20 : data[i].moisture = i
    /\ stats.moistureTrend = [n |-> 10, d |-> 1]

\* C8: after the query of a window change has succeeded, the buffer is the
\* new result and the statistics are what a fresh Dashboard would show for
\* that result: none of the previous window's remain.  (The latest reading
\* is left out: a live push may have set it since the window changed.)
C8_NoCarryOver ==
    [][\A i \in DOMAIN queries :
          (ResponseStep(i) /\ queries[i].status = "ok" /\ queries[i].seq > 1)
              => LET readings == queries[i].rows
                 IN  /\ data' = readings
                     /\ stats' = calculateStats(InitialStats, readings)]_vars

\* C9: after calculateStats has been given a series of fewer than 2
\* readings, the published statistics are not those of a series of 2 or
\* more readings.
C9_InsufficientDataPublished ==
    [][\A i \in DOMAIN queries :
          (ResponseStep(i) /\ queries[i].status = "ok"
               /\ Len(queries[i].rows) = 1)
              => stats'.totalReadings < 2]_vars

\* C10: a live reading older than every entry of a full buffer is dropped
\* and the buffer is unchanged.
C10_OlderThanFullBufferDropped ==
    [][(PushStep /\ Len(data) = Cap
          /\ \A i \in DOMAIN data :
                 Head(pushQ).created_at < data[i].created_at)
          => data' = data]_vars

\* C11: when fetchData resumes with a failed query, buffer, latest reading
\* and statistics stay what they were and loading becomes false.
C11_FailedQueryPreservesData ==
    [][\A i \in DOMAIN queries :
          (ResponseStep(i) /\ queries[i].status = "error")
              => /\ UNCHANGED <<data, latest, stats>>
                 /\ loading' = FALSE]_vars

\* The query of the second window has failed and been handled (no query is
\* under way and the buffer is still the one seeded by the first) while
\* statistics of two readings are published.
C11_Witness ==
    /\ mounted
    /\ fetches = 2
    /\ seededFrom = 1
    /\ queries = <<>>
    /\ ~timer
    /\ ~loading
    /\ Len(data) = 2
    /\ latest = data[2]
    /\ stats.totalReadings = 2

\* C13: a mounted Dashboard holds exactly one active subscription and has
\* released none; a change of the window token creates and releases none;
\* after the unmount no subscription is active and exactly one release has
\* happened.
C13_OneSubscription ==
    /\ [](/\ subscribed <= 1
          /\ mounted => (subscribed = 1 /\ unsubscribes = 0)
          /\ ~mounted => (subscribed = 0 /\ unsubscribes = 1))
    /\ [][timeRange' # timeRange /\ mounted'
             => UNCHANGED <<subscribed, unsubscribes>>]_vars

\* The Dashboard has unmounted after a window change and its query.
C13_Witness ==
    /\ ~mounted
    /\ fetches >= 2
    /\ subscribed = 0
    /\ unsubscribes = 1

\* v is the least (greatest) of the values.
IsMinOf(v, values) ==
    /\ \E i \in DOMAIN values : values[i] = v
    /\ \A i \in DOMAIN values : v <= values[i]

IsMaxOf(v, values) ==
    /\ \E i \in DOMAIN values : values[i] = v
    /\ \A i \in DOMAIN values : v >= values[i]

\* The published statistics are those of the series: per metric the mean of
\* all values and the extrema over all values, and the count is the length.
StatsDescribe(series) ==
    LET n == Len(series)
    IN  /\ stats.totalReadings = n
        /\ stats.moistureAvg = MeanOf(MapMoisture(series), 1, n)
        /\ stats.tempAvg = MeanOf(MapTemperature(series), 1, n)
        /\ stats.lightAvg = MeanOf(MapLight(series), 1, n)
        /\ IsMinOf(stats.moistureMin, MapMoisture(series))
        /\ IsMaxOf(stats.moistureMax, MapMoisture(series))
        /\ IsMinOf(stats.tempMin, MapTemperature(series))
        /\ IsMaxOf(stats.tempMax, MapTemperature(series))
        /\ IsMinOf(stats.lightMin, MapLight(series))
        /\ IsMaxOf(stats.lightMax, MapLight(series))

\* C14: once fetchData has handled a non-empty series, each metric's average
\* is the mean of all its values, min and max are the extrema over all of
\* it and the count is its length.
C14_StatsOfNonEmptySeries ==
    (queries = <<>> /\ Len(data) >= 1) => StatsDescribe(data)

\* C14, amended: the same for a series of at least 2 readings.
C14_StatsOfSeries ==
    (queries = <<>> /\ Len(data) >= 2) => StatsDescribe(data)

\* Scenario A has been computed: moisture [50, 30], average 40, min 30,
\* max 50, count 2.
C14_Witness ==
    /\ queries = <<>>
    /\ Len(data) = 2
    /\ data[1].moisture = 50
    /\ data[2].moisture = 30
    /\ stats.moistureAvg = [n |-> 40, d |-> 1]
    /\ stats.moistureMin = 30
    /\ stats.moistureMax = 50
    /\ stats.totalReadings = 2

\* The field is a number: a JSON number, or a string that is a whole number
\* from its first to its last character (white space before it aside).
IsNumeric(field) ==
    \/ field.kind = "number"
    \/ /\ field.kind = "string"
       /\ LET t == TrimStart(field.chars)
              u == IF t # <<>> /\ Head(t) \in {"+", "-"} THEN Tail(t) ELSE t
          IN  u # <<>> /\ \A k \in DOMAIN u : IsDigit(u[k])

\* What the claim has stored for a field: its value, 0 when it is missing
\* or no number.
Coerced(field) ==
    IF ~IsNumeric(field) THEN 0
    ELSE IF field.kind = "number" THEN field.v
    ELSE LET t == TrimStart(field.chars)
         IN  IF Head(t) = "-" THEN -Decimal(Tail(t))
             ELSE IF Head(t) = "+" THEN Decimal(Tail(t))
             ELSE Decimal(t)

\* C15: POST stores, for each of soil, temperature and light_lux, the
\* submitted value, and 0 when the field is missing or not a valid number;
\* when the insert fails it stores nothing and responds with status 500 and
\* success = false.
C15_IngestCoercion ==
    [][\A body \in Submissions, ok \in BOOLEAN :
          POST(body, ok)
              => IF ok
                 THEN \E r \in store' \ store :
                         /\ r.moisture = Coerced(body.soil)
                         /\ r.temperature = Coerced(body.temperature)
                         /\ r.light_lux = Coerced(body.light_lux)
                 ELSE /\ store' = store
                      /\ response'.status = 500
                      /\ response'.success = FALSE]_vars

\* C16: DELETE with action clear_all removes every reading, with action
\* clear_device and a device id exactly the readings of that device (both
\* answered with success); clear_device without a device id and any other
\* action are answered with status 400 and success = false and delete
\* nothing; a delete that fails deletes nothing.
C16_DeleteOnlyOnValidRequest ==
    [][\A action \in Actions, deviceId \in DeviceIds, ok \in BOOLEAN :
          DELETE(action, deviceId, ok)
              => IF action = "clear_all" /\ ok
                 THEN store' = {} /\ response'.success
                 ELSE IF action = "clear_device" /\ deviceId # "" /\ ok
                 THEN /\ store' = {r \in store : r.device_id # deviceId}
                      /\ response'.success
                 ELSE /\ store' = store
                      /\ ~response'.success
                      /\ (action # "clear_all"
                            /\ ~(action = "clear_device" /\ deviceId # ""))
                           => response'.status = 400]_vars

\* clear_device has removed the readings of one of two devices, and only
\* those.
C16_Witness ==
    /\ response # Null
    /\ response.status = 200
    /\ "message" \in DOMAIN response
    /\ response.message = "History cleared for device"
    /\ store # {}
    /\ nextId = 4
    /\ Cardinality(store) < 3

\* C17: whenever a latest reading is shown, the buffer is non-empty and the
\* latest reading is its last element.
C17_LatestIsLastOfBuffer ==
    (mounted /\ latest # Null)
        => (data # <<>> /\ latest = data[Len(data)])

\* C18: while the query of the newest call of fetchData, which is the one
\* for the selected window token, is under way, loading is true.
C18_LoadingWhileCurrentQuery ==
    (/\ mounted
     /\ ~timer
     /\ \E i \in DOMAIN queries :
           queries[i].seq = fetches /\ queries[i].token = timeRange)
        => loading

\* C12: with a latest reading on the dashboard and a threshold
\* configuration saved in the settings, the low moisture alert is shown iff
\* moisture < moistureLow, the low light alert iff lightLux < lightLow, and
\* the temperature alert iff temperature < tempLow or temperature > tempHigh.
C12_AlertsFollowThresholds ==
    (mounted /\ screen = "dashboard" /\ latest # Null
       /\ localStorage # Null)
        => /\ LowMoistureAlert
                 <=> latest.moisture < localStorage.moistureThreshold
           /\ LowLightAlert
                 <=> latest.light_lux < localStorage.lightThreshold
           /\ TempOutOfRangeAlert
                 <=> \/ latest.temperature < localStorage.tempThresholdLow
                     \/ latest.temperature > localStorage.tempThresholdHigh

\* A step in which clearHistory resumes in a mounted Dashboard.
ClearResumesStep ==
    /\ mounted
    /\ clearReq.state \in {"answered", "threw"}
    /\ clearReq' = NoRequest

\* C19: when clearHistory resumes with a result that reports success, the
\* buffer is emptied, the latest reading set to null and no statistics of
\* the deleted readings stay published; when the result reports failure or
\* the request threw, buffer and latest reading are unchanged.
C19_ClearHistoryOutcome ==
    [][ClearResumesStep
          => IF clearReq.state = "answered" /\ clearReq.result.success
             THEN /\ data' = <<>>
                  /\ latest' = Null
                  /\ stats'.totalReadings = 0
             ELSE UNCHANGED <<data, latest>>]_vars

\* C20: clearHistory is called only from the confirmation state, and the
\* call resets the confirmation state and closes the modal; whenever the
\* modal opens, it opens outside the confirmation state.
C20_TwoStepClear ==
    [][/\ (clearReq = NoRequest /\ clearReq' = [state |-> "sent"])
             => (showConfirm /\ ~showConfirm' /\ ~showSettings')
       /\ (~showSettings /\ showSettings') => ~showConfirm']_vars

====
